---------------------------- MODULE Spec2Model ----------------------------
(***************************************************************************)
(* Spawn retry and EBADF recovery of the gateway supervisor.               *)
(*                                                                         *)
(*   src/src/process/spawn-utils.ts   spawnWithFallback, the EBADF         *)
(*                                    recovery tracker                     *)
(*   src/src/infra/spawn-watchdog.ts  the spawn health watchdog            *)
(*                                                                         *)
(* The program runs on one JavaScript thread: a handler runs to its next   *)
(* await without interleaving, so every action below is one such run.      *)
(* A spawnWithFallback call suspends only while an attempt is in flight    *)
(* (pc = "awaiting"); the clock, the callback setter and the watchdog may  *)
(* act in between.  The caller awaits a call before it makes the next one. *)
(* Date.now() is read as the variable now, which never goes back.          *)
(***************************************************************************)
EXTENDS Integers, Sequences, FiniteSets, TLC

(***************************************************************************)
(* Bounds of the model.                                                    *)
(***************************************************************************)
\* The clock moves in steps of Tick milliseconds.
Tick == 60000
\* Date.now() when the module is loaded: later than every window and cooldown
\* after the epoch, the value of the three "last ... at" variables at load.
StartTime == 330000
\* The clock stops after MaxTicks steps.
MaxTicks == 3
\* The consecutive count is not driven past MaxCount.
MaxCount == 4
\* A call passes at most MaxFallbacks fallbacks.
MaxFallbacks == 2
\* The watchdog's failure list is not driven past MaxFailures entries.
MaxFailures == 5
\* With the watchdog running the clock stops after MaxWatchdogTicks steps.
MaxWatchdogTicks == 6
\* The log monitor is not driven past MaxSignals restart signals.
MaxSignals == 3
\* With both escalation paths armed the clock stops after MaxSystemTicks steps.
MaxSystemTicks == 1
\* The child of a launch emits at most MaxEmits events.
MaxEmits == 3

MaxNow == StartTime + MaxTicks * Tick
MaxWatchdogNow == StartTime + MaxWatchdogTicks * Tick

(***************************************************************************)
(* Program constants.                                                      *)
(***************************************************************************)
EBADF_RECOVERY_THRESHOLD == 3
EBADF_RECOVERY_WINDOW_MS == 60000
EBADF_RECOVERY_COOLDOWN_MS == 120000
WATCHDOG_CHECK_INTERVAL_MS == 30000
HEALTH_THRESHOLD_FAILURES == 5
HEALTH_WINDOW_MS == 120000
RESTART_COOLDOWN_MS == 300000
RESTART_DELAY_MS == 1000
\* the log watchdog script: its defaults, in seconds
EBADF_THRESHOLD == 3
COOLDOWN == 120

DEFAULT_RETRY_CODES == {"EBADF"}

VARIABLES
    now,                    \* Date.now()
    \* spawn-utils.ts, module state
    recordSpawnFailureFn,   \* "null" or "recordSpawnFailure"
    recordSpawnSuccessFn,   \* "null" or "recordSpawnSuccess"
    ebadfErrorCount,
    ebadfLastErrorAt,
    ebadfLastRecoveryAt,
    ebadfRecoveryCallback,  \* "null", or a function: "returns" or "throws"
    \* spawn-watchdog.ts, module state
    watchdogTimer,          \* NoTimer, or the interval timer and when it is next due
    spawnFailures,
    lastRestartAt,
    isEnabled,
    \* the spawnWithFallback call in flight, or the last one made
    pc,                     \* "idle" or "awaiting"
    params,                 \* [fallbacks, retryCodes, onFallback]
    index,
    hadEbadfError,
    lastError,
    outcome,                \* what the caller's promise settled with
    \* what the program did to its collaborators
    launches,               \* spawnImpl calls of the call: their options
    fallbackCalls,          \* onFallback calls of the call: [err, fallback]
    recoveryCalls,          \* the times ebadfRecoveryCallback was invoked
    recorded,               \* the times of the recordEbadfError() calls made since
                            \* the callback was last invoked and since a call last
                            \* succeeded without an EBADF failure (the last
                            \* EBADF_RECOVERY_THRESHOLD of them)
    restartCalls,           \* scheduleGatewaySigusr1Restart calls: [at, reason, delayMs]
    watchdogCall,           \* the function of spawn-watchdog.ts that ran last
    cycledSinceRestart,     \* the watchdog was stopped and set up again since it last
                            \* scheduled a restart
    \* the log watchdog script (buildLogWatchdogScript), a process of its own
    monitorPc,              \* "stopped" or "tailing"
    LAST_RESTART,
    TOTAL_RESTARTS,
    EBADF_COUNT,
    statsFile,              \* $STATS_FILE
    gatewayPid,             \* what get_gateway_pid prints: "" or a pid
    signals,                \* the times kill -USR1 was sent
    \* one launch: spawnAndWaitForSpawn
    childPid,               \* child.pid: "number" or "undefined"; "none" with no child
    settled,
    listeners,              \* the events of the child onError and onSpawn listen to
    nextTickQueued,         \* the process.nextTick callback has not run yet
    launchOutcome,          \* the promise of the launch
    settleCalls,            \* how often resolve() or reject() was called
    events                  \* what has happened to the launch, in order

trackerVars == <<ebadfErrorCount, ebadfLastErrorAt, ebadfLastRecoveryAt>>
hookVars == <<recordSpawnFailureFn, recordSpawnSuccessFn>>
watchdogVars == <<watchdogTimer, spawnFailures, lastRestartAt, isEnabled>>
callVars == <<pc, params, index, hadEbadfError, lastError, outcome, launches, fallbackCalls>>
logVars == <<recoveryCalls, recorded, restartCalls, watchdogCall, cycledSinceRestart>>
monitorVars == <<monitorPc, LAST_RESTART, TOTAL_RESTARTS, EBADF_COUNT, statsFile, gatewayPid,
                 signals>>
launchVars == <<childPid, settled, listeners, nextTickQueued, launchOutcome, settleCalls,
                events>>
vars == <<now, trackerVars, ebadfRecoveryCallback, hookVars, watchdogVars, callVars, logVars,
          monitorVars, launchVars>>

(***************************************************************************)
(* Values.                                                                 *)
(***************************************************************************)
\* The last n entries of a sequence.
LastOf(seq, n) == IF Len(seq) <= n THEN seq ELSE SubSeq(seq, Len(seq) - n + 1, Len(seq))

\* The code of an error: "" is an error that carries none.
ErrorCodes == {"EBADF", "ENOENT", "EAGAIN", ""}

NoError == [origin |-> "none", code |-> "", attempt |-> 0]
\* The error attempt i settled with (a throw of spawnImpl or an 'error' event).
LaunchError(code, i) == [origin |-> "launch", code |-> code, attempt |-> i]
\* What a throwing callback throws.
CallbackError(which, i) == [origin |-> which, code |-> "", attempt |-> i]

\* SpawnOptions: a function from option keys to values.
BaseOptions == [stdio |-> "pipe,pipe,pipe", cwd |-> "/work"]

\* The fallbacks a caller may pass: a prefix of this list.
FallbackCatalogue ==
    << [label |-> "safe-stdin", options |-> [stdio |-> "ignore,pipe,pipe"]],
       [label |-> "no-stdio",   options |-> [stdio |-> "ignore,ignore,ignore",
                                             detached |-> "true"]],
       [label |-> "bare",       options |-> [cwd |-> "/"]],
       [label |-> "last",       options |-> [stdio |-> "inherit,pipe,pipe"]] >>

\* watchdogTimer: null, or the timer setInterval returned.
NoTimer == [set |-> FALSE, due |-> 0]
IntervalTimer(due) == [set |-> TRUE, due |-> due]

NoLabel == "undefined"
NoFallback == [label |-> NoLabel, options |-> BaseOptions]

RetryCodeChoices == {DEFAULT_RETRY_CODES, {"EAGAIN"}}
OnFallbackChoices == {"undefined", "returns", "throws"}
CallbackChoices == {"null", "returns", "throws"}

\* $STATS_FILE: absent, or the one line write_stats wrote, or other bytes.
NoStatsFile == [content |-> "absent", lastRestart |-> 0, totalRestarts |-> 0, lastCheck |-> 0]
StatsRecord(lastRestart, totalRestarts, lastCheck) ==
    [content |-> "record", lastRestart |-> lastRestart, totalRestarts |-> totalRestarts,
     lastCheck |-> lastCheck]
CorruptStatsFile == [content |-> "corrupt", lastRestart |-> 0, totalRestarts |-> 0,
                     lastCheck |-> 0]

\* The promise of one launch: not made yet, pending, resolved with the child
\* or rejected with an error.
NotLaunched == [kind |-> "none", error |-> NoError]
LaunchPending == [kind |-> "pending", error |-> NoError]
LaunchResolved == [kind |-> "resolved", error |-> NoError]
LaunchRejected(err) == [kind |-> "rejected", error |-> err]

NoOutcome == [kind |-> "pending", usedFallback |-> FALSE, fallbackLabel |-> NoLabel,
              error |-> NoError]
Resolved(used, label) == [kind |-> "resolved", usedFallback |-> used,
                          fallbackLabel |-> label, error |-> NoError]
Rejected(err) == [kind |-> "rejected", usedFallback |-> FALSE, fallbackLabel |-> NoLabel,
                  error |-> err]


(***************************************************************************)
(* spawn-utils.ts: the EBADF recovery tracker.                             *)
(***************************************************************************)
\* The tracker's module variables as one value.
Tracker == [errorCount |-> ebadfErrorCount, lastErrorAt |-> ebadfLastErrorAt,
            lastRecoveryAt |-> ebadfLastRecoveryAt]

\* What a call of the registered callback does: it returns or it throws.
CallbackThrows(cb) == cb = "throws"

\* Variants of recordEbadfError() with one slip each, for checking that the
\* properties below depend on it: the threshold compared one too low, the
\* window reset left out, the recovery time not stored, the callback called
\* outside try/catch, the callback called as ebadfRecoveryCallback?.() inside
\* the branch, the count zeroed when the cooldown holds the recovery back.
RecordEbadfErrorVariant(s, t, cb, slip) ==
    LET reset == slip # "no-window-reset" /\ t - s.lastErrorAt > EBADF_RECOVERY_WINDOW_MS
        count == (IF reset THEN 0 ELSE s.errorCount) + 1
        threshold == IF slip = "threshold-low" THEN EBADF_RECOVERY_THRESHOLD - 1
                     ELSE EBADF_RECOVERY_THRESHOLD
        trigger == /\ count >= threshold
                   /\ t - s.lastRecoveryAt > EBADF_RECOVERY_COOLDOWN_MS
                   /\ (cb # "null" \/ slip = "optional-call")
        suppressed == /\ slip = "reset-in-cooldown"
                      /\ count >= threshold
                      /\ ~(t - s.lastRecoveryAt > EBADF_RECOVERY_COOLDOWN_MS)
    IN  [errorCount     |-> IF trigger \/ suppressed THEN 0 ELSE count,
         lastErrorAt    |-> t,
         lastRecoveryAt |-> IF trigger /\ slip # "no-recovery-time" THEN t
                            ELSE s.lastRecoveryAt,
         invoked        |-> trigger /\ cb # "null",
         thrown         |-> slip = "uncaught" /\ trigger /\ CallbackThrows(cb)]
recordEbadfError_ThresholdLow(s, t, cb) == RecordEbadfErrorVariant(s, t, cb, "threshold-low")
recordEbadfError_NoWindowReset(s, t, cb) == RecordEbadfErrorVariant(s, t, cb, "no-window-reset")
recordEbadfError_NoRecoveryTime(s, t, cb) == RecordEbadfErrorVariant(s, t, cb, "no-recovery-time")
recordEbadfError_Uncaught(s, t, cb) == RecordEbadfErrorVariant(s, t, cb, "uncaught")
recordEbadfError_OptionalCall(s, t, cb) == RecordEbadfErrorVariant(s, t, cb, "optional-call")
recordEbadfError_ResetsInCooldown(s, t, cb) ==
    RecordEbadfErrorVariant(s, t, cb, "reset-in-cooldown")

\* recordEbadfError() at time t with callback cb registered, from tracker
\* state s.  The result is the tracker state it leaves, whether it invoked the
\* callback, and whether an exception leaves the function.
recordEbadfError(s, t, cb) ==
    LET reset == t - s.lastErrorAt > EBADF_RECOVERY_WINDOW_MS
        count == (IF reset THEN 0 ELSE s.errorCount) + 1
        trigger == /\ count >= EBADF_RECOVERY_THRESHOLD
                   /\ t - s.lastRecoveryAt > EBADF_RECOVERY_COOLDOWN_MS
                   /\ cb # "null"
    IN  [errorCount     |-> IF trigger THEN 0 ELSE count,
         lastErrorAt    |-> t,
         lastRecoveryAt |-> IF trigger THEN t ELSE s.lastRecoveryAt,
         invoked        |-> trigger,
         \* try { ebadfRecoveryCallback() } catch { }: nothing leaves
         thrown         |-> FALSE]

\* The catch block's use of the tracker: recordEbadfError() only for EBADF.
NotRecorded(s) == [errorCount |-> s.errorCount, lastErrorAt |-> s.lastErrorAt,
                   lastRecoveryAt |-> s.lastRecoveryAt,
                   invoked |-> FALSE, thrown |-> FALSE]

\* resetEbadfCounter()
resetEbadfCounter(count) == 0

\* shouldRetry(err, codes): the error has a non-empty code that is in codes.
shouldRetry(err, codes) == err.code # "" /\ err.code \in codes

(***************************************************************************)
(* spawn-watchdog.ts: recording.                                           *)
(***************************************************************************)
\* The entries of a failure list later than cutoff, in order.
FilterAfter(failures, cutoff) == SelectSeq(failures, LAMBDA ts : ts > cutoff)

\* Variant: the enabled flag is not looked at.
recordSpawnFailure_IgnoresEnabled(failures, enabled, t) ==
    FilterAfter(Append(failures, t), t - HEALTH_WINDOW_MS)

\* recordSpawnFailure() at time t: the failure list it leaves.
recordSpawnFailure(failures, enabled, t) ==
    IF ~enabled THEN failures
    ELSE FilterAfter(Append(failures, t), t - HEALTH_WINDOW_MS)

\* Variant: a success clears the failure list.
recordSpawnSuccess_ClearsFailures(failures, enabled, t) ==
    IF ~enabled THEN failures ELSE <<>>

\* recordSpawnSuccess() at time t: the failure list it leaves.
recordSpawnSuccess(failures, enabled, t) == failures

\* recordSpawnFailureFn?.() and recordSpawnSuccessFn?.()
NotifyFailure(fn, failures, enabled, t) ==
    IF fn = "null" THEN failures ELSE recordSpawnFailure(failures, enabled, t)
NotifySuccess(fn, failures, enabled, t) ==
    IF fn = "null" THEN failures ELSE recordSpawnSuccess(failures, enabled, t)

\* Variants of checkSpawnHealth() with one slip each: the threshold compared
\* one too low, the cooldown not looked at.
CheckSpawnHealthVariant(failures, lastRestart, t, slip) ==
    LET pruned == FilterAfter(failures, t - HEALTH_WINDOW_MS)
        threshold == IF slip = "threshold-low" THEN HEALTH_THRESHOLD_FAILURES - 1
                     ELSE HEALTH_THRESHOLD_FAILURES
    IN  IF Len(pruned) < threshold
        THEN [spawnFailures |-> pruned, lastRestartAt |-> lastRestart, restart |-> FALSE]
        ELSE IF slip # "no-cooldown" /\ t - lastRestart < RESTART_COOLDOWN_MS
             THEN [spawnFailures |-> pruned, lastRestartAt |-> lastRestart, restart |-> FALSE]
             ELSE [spawnFailures |-> <<>>, lastRestartAt |-> t, restart |-> TRUE]
checkSpawnHealth_ThresholdLow(failures, lastRestart, t) ==
    CheckSpawnHealthVariant(failures, lastRestart, t, "threshold-low")
checkSpawnHealth_NoCooldown(failures, lastRestart, t) ==
    CheckSpawnHealthVariant(failures, lastRestart, t, "no-cooldown")

\* checkSpawnHealth() at time t: the failure list and the restart time it
\* leaves, and whether it schedules a restart.
checkSpawnHealth(failures, lastRestart, t) ==
    LET pruned == FilterAfter(failures, t - HEALTH_WINDOW_MS)
    IN  IF Len(pruned) < HEALTH_THRESHOLD_FAILURES
        THEN [spawnFailures |-> pruned, lastRestartAt |-> lastRestart, restart |-> FALSE]
        ELSE IF t - lastRestart < RESTART_COOLDOWN_MS
             THEN [spawnFailures |-> pruned, lastRestartAt |-> lastRestart, restart |-> FALSE]
             ELSE [spawnFailures |-> <<>>, lastRestartAt |-> t, restart |-> TRUE]

\* scheduleGatewaySigusr1Restart({reason, delayMs}) at time t, of restart.js:
\* fire and forget, the call is all the watchdog sees of it.
scheduleGatewaySigusr1Restart(calls, t, reason, delayMs) ==
    Append(calls, [at |-> t, reason |-> reason, delayMs |-> delayMs])

\* getSpawnWatchdogStats() at time t
getSpawnWatchdogStats(failures, enabled, lastRestart, t) ==
    [enabled |-> enabled,
     recentFailures |-> Len(FilterAfter(failures, t - HEALTH_WINDOW_MS)),
     lastRestartAt |-> lastRestart,
     timeSinceLastRestart |-> IF lastRestart > 0 THEN t - lastRestart ELSE -1]

(***************************************************************************)
(* spawn-utils.ts: spawnWithFallback.                                      *)
(***************************************************************************)
\* { ...base, ...over }: a shallow merge, the override wins.
MergeOptions(base, over) ==
    [k \in DOMAIN base \cup DOMAIN over |-> IF k \in DOMAIN over THEN over[k] ELSE base[k]]

\* The attempts of a call: the base options, then one attempt per fallback.
\* attempts[k + 1] here is attempts[k] in the source.
Attempts(fallbacks) ==
    <<[label |-> NoLabel, options |-> BaseOptions]>> \o
    [k \in 1..Len(fallbacks) |->
        [label |-> fallbacks[k].label,
         options |-> MergeOptions(BaseOptions, fallbacks[k].options)]]

\* fallbacks[i] of the source (0-based), NoFallback for undefined.
FallbackAt(fallbacks, i) == IF i + 1 <= Len(fallbacks) THEN fallbacks[i + 1] ELSE NoFallback

\* Variant: the label is taken from the attempt before the one that succeeded.
SuccessResult_PreviousLabel(fallbacks, i) ==
    Resolved(i > 0, Attempts(fallbacks)[IF i > 0 THEN i ELSE 1].label)

\* The value a call resolves with when attempt i succeeds.
SuccessResult(fallbacks, i) == Resolved(i > 0, Attempts(fallbacks)[i + 1].label)

\* Variants: the success path never resets the counter; it always does.
CountAfterSuccess_NeverResets(count, hadEbadf) == count
CountAfterSuccess_AlwaysResets(count, hadEbadf) == resetEbadfCounter(count)

\* The success path touches the counter unless the call saw EBADF.
CountAfterSuccess(count, hadEbadf) == IF ~hadEbadf THEN resetEbadfCounter(count) ELSE count

\* const isEbadf = shouldRetry(err, ["EBADF"])
IsEbadf(err) == shouldRetry(err, {"EBADF"})

\* Variant: the error is rethrown before the tracker is told of it.
TrackerAfterCatch_ThrowFirst(s, t, cb, err, fallbacks, i, retryCodes) ==
    IF IsEbadf(err) /\ ~(i + 1 > Len(fallbacks) \/ ~shouldRetry(err, retryCodes))
    THEN recordEbadfError(s, t, cb) ELSE NotRecorded(s)

\* Variant: the tracker is told of the errors the caller wants retried.
TrackerAfterCatch_OnlyRetryable(s, t, cb, err, fallbacks, i, retryCodes) ==
    IF shouldRetry(err, retryCodes) THEN recordEbadfError(s, t, cb) ELSE NotRecorded(s)

\* Variant: the tracker is told once per call, when the call gives up.
TrackerAfterCatch_WhenGivingUp(s, t, cb, err, fallbacks, i, retryCodes) ==
    IF IsEbadf(err) /\ (i + 1 > Len(fallbacks) \/ ~shouldRetry(err, retryCodes))
    THEN recordEbadfError(s, t, cb) ELSE NotRecorded(s)

\* if (isEbadf) { hadEbadfError = true; recordEbadfError(); }: what the catch
\* block of attempt i does to the tracker, before it looks at the fallbacks.
TrackerAfterCatch(s, t, cb, err, fallbacks, i, retryCodes) ==
    IF IsEbadf(err) THEN recordEbadfError(s, t, cb) ELSE NotRecorded(s)

\* Variant: every error is retried while a fallback remains.
Rethrows_IgnoresCode(err, fallbacks, i, retryCodes) == i + 1 > Len(fallbacks)

\* if (!nextFallback || !shouldRetry(err, retryCodes)) throw err
Rethrows(err, fallbacks, i, retryCodes) ==
    i + 1 > Len(fallbacks) \/ ~shouldRetry(err, retryCodes)

\* params.onFallback?.(err, nextFallback): whether an exception leaves the
\* call.  The call is made inside the catch block, outside any try.
OnFallbackThrown(onFallback) == CallbackThrows(onFallback)

Params == [fallbacks : {SubSeq(FallbackCatalogue, 1, n) : n \in 0..MaxFallbacks},
           retryCodes : RetryCodeChoices,
           onFallback : OnFallbackChoices]

\* spawnWithFallback(p) up to its first await: attempt 0 is launched.
SpawnWithFallback(p) ==
    /\ pc = "idle"
    /\ pc' = "awaiting"
    /\ params' = p
    /\ index' = 0
    /\ hadEbadfError' = FALSE
    /\ lastError' = NoError
    /\ outcome' = NoOutcome
    /\ launches' = <<Attempts(p.fallbacks)[1].options>>
    /\ fallbackCalls' = <<>>
    /\ UNCHANGED <<now, trackerVars, ebadfRecoveryCallback, hookVars, watchdogVars,
                   logVars, monitorVars, launchVars>>

\* The attempt in flight starts: the try block after the await.
AttemptResolves ==
    /\ pc = "awaiting"
    /\ ebadfErrorCount' = CountAfterSuccess(ebadfErrorCount, hadEbadfError)
    /\ recorded' = IF hadEbadfError THEN recorded ELSE <<>>
    /\ spawnFailures' = NotifySuccess(recordSpawnSuccessFn, spawnFailures, isEnabled, now)
    /\ watchdogCall' = IF recordSpawnSuccessFn = "null" THEN watchdogCall
                       ELSE "recordSpawnSuccess"
    /\ outcome' = SuccessResult(params.fallbacks, index)
    /\ pc' = "idle"
    /\ UNCHANGED <<now, ebadfLastErrorAt, ebadfLastRecoveryAt, ebadfRecoveryCallback,
                   hookVars, watchdogTimer, lastRestartAt, isEnabled,
                   params, index, hadEbadfError, lastError, launches, fallbackCalls,
                   recoveryCalls, restartCalls, monitorVars,
                   cycledSinceRestart, launchVars>>

\* The attempt in flight fails with an error of the given code: the catch
\* block, and the next trip of the loop up to its await.
AttemptRejects(code) ==
    /\ pc = "awaiting"
    /\ LET err == LaunchError(code, index)
           isEbadf == IsEbadf(err)
           tr == TrackerAfterCatch(Tracker, now, ebadfRecoveryCallback, err,
                                   params.fallbacks, index, params.retryCodes)
           \* an exception out of recordEbadfError() leaves the catch block
           notified == ~tr.thrown
           rethrows == notified /\ Rethrows(err, params.fallbacks, index, params.retryCodes)
           observed == notified /\ ~rethrows /\ params.onFallback # "undefined"
           observerThrew == observed /\ OnFallbackThrown(params.onFallback)
           continues == notified /\ ~rethrows /\ ~observerThrew
           failures == IF notified
                       THEN NotifyFailure(recordSpawnFailureFn, spawnFailures, isEnabled, now)
                       ELSE spawnFailures
       IN  /\ tr.errorCount <= MaxCount
           /\ Len(failures) <= MaxFailures
           /\ lastError' = err
           /\ hadEbadfError' = (hadEbadfError \/ isEbadf)
           /\ ebadfErrorCount' = tr.errorCount
           /\ ebadfLastErrorAt' = tr.lastErrorAt
           /\ ebadfLastRecoveryAt' = tr.lastRecoveryAt
           /\ recoveryCalls' = IF tr.invoked THEN Append(recoveryCalls, now) ELSE recoveryCalls
           /\ recorded' = IF tr.invoked THEN <<>>
                          ELSE IF isEbadf THEN LastOf(Append(recorded, now), EBADF_RECOVERY_THRESHOLD)
                               ELSE recorded
           /\ spawnFailures' = failures
           /\ watchdogCall' = IF notified /\ recordSpawnFailureFn # "null"
                              THEN "recordSpawnFailure" ELSE watchdogCall
           /\ fallbackCalls' =
                 IF observed
                 THEN Append(fallbackCalls,
                             [err |-> err, fallback |-> FallbackAt(params.fallbacks, index).label])
                 ELSE fallbackCalls
           /\ IF continues
              THEN /\ index' = index + 1
                   /\ launches' = Append(launches, Attempts(params.fallbacks)[index + 2].options)
                   /\ pc' = "awaiting"
                   /\ outcome' = outcome
              ELSE /\ index' = index
                   /\ launches' = launches
                   /\ pc' = "idle"
                   /\ outcome' = IF tr.thrown THEN Rejected(CallbackError("recovery", index))
                                 ELSE IF observerThrew
                                      THEN Rejected(CallbackError("onFallback", index))
                                      ELSE Rejected(err)
    /\ UNCHANGED <<now, ebadfRecoveryCallback, hookVars, watchdogTimer, lastRestartAt,
                   isEnabled, params, restartCalls, monitorVars,
                   cycledSinceRestart, launchVars>>

\* setEbadfRecoveryCallback(cb)
SetEbadfRecoveryCallback(cb) ==
    /\ ebadfRecoveryCallback' = cb
    /\ UNCHANGED <<now, trackerVars, hookVars, watchdogVars, callVars,
                   logVars, monitorVars, launchVars>>

\* Time passes.
AdvanceClock ==
    /\ now + Tick <= MaxNow
    /\ now' = now + Tick
    /\ UNCHANGED <<trackerVars, ebadfRecoveryCallback, hookVars, watchdogVars, callVars,
                   logVars, monitorVars, launchVars>>

(***************************************************************************)
(* spawn-watchdog.ts: lifecycle and the periodic check.                    *)
(***************************************************************************)
\* Variant: the watchdog is set up again although its timer runs.
StartSpawnWatchdog_NoGuard ==
    /\ isEnabled' = TRUE
    /\ spawnFailures' = <<>>
    /\ recordSpawnFailureFn' = "recordSpawnFailure"
    /\ recordSpawnSuccessFn' = "recordSpawnSuccess"
    /\ watchdogTimer' = IntervalTimer(now + WATCHDOG_CHECK_INTERVAL_MS)
    /\ watchdogCall' = "startSpawnWatchdog"
    /\ cycledSinceRestart' = (cycledSinceRestart \/ lastRestartAt > 0)
    /\ UNCHANGED <<now, trackerVars, ebadfRecoveryCallback, lastRestartAt, callVars,
                   recoveryCalls, recorded, restartCalls, monitorVars, launchVars>>

\* Variant: a start also forgets the last restart.
StartSpawnWatchdog_ForgetsRestart ==
    /\ IF watchdogTimer.set
       THEN UNCHANGED <<watchdogVars, hookVars>>
       ELSE /\ isEnabled' = TRUE
            /\ spawnFailures' = <<>>
            /\ lastRestartAt' = 0
            /\ recordSpawnFailureFn' = "recordSpawnFailure"
            /\ recordSpawnSuccessFn' = "recordSpawnSuccess"
            /\ watchdogTimer' = IntervalTimer(now + WATCHDOG_CHECK_INTERVAL_MS)
    /\ watchdogCall' = "startSpawnWatchdog"
    /\ cycledSinceRestart' = (cycledSinceRestart \/ (~watchdogTimer.set /\ lastRestartAt > 0))
    /\ UNCHANGED <<now, trackerVars, ebadfRecoveryCallback, callVars, recoveryCalls, recorded,
                   restartCalls, monitorVars, launchVars>>

\* startSpawnWatchdog(): nothing when the timer runs; else recording is
\* enabled, the list cleared, the callbacks registered with spawn-utils and
\* the interval timer created.
StartSpawnWatchdog ==
    /\ IF watchdogTimer.set
       THEN UNCHANGED <<watchdogVars, hookVars>>
       ELSE /\ isEnabled' = TRUE
            /\ spawnFailures' = <<>>
            /\ recordSpawnFailureFn' = "recordSpawnFailure"
            /\ recordSpawnSuccessFn' = "recordSpawnSuccess"
            /\ watchdogTimer' = IntervalTimer(now + WATCHDOG_CHECK_INTERVAL_MS)
            /\ UNCHANGED lastRestartAt
    /\ watchdogCall' = "startSpawnWatchdog"
    /\ cycledSinceRestart' = (cycledSinceRestart \/ (~watchdogTimer.set /\ lastRestartAt > 0))
    /\ UNCHANGED <<now, trackerVars, ebadfRecoveryCallback, callVars, recoveryCalls, recorded,
                   restartCalls, monitorVars, launchVars>>

\* Variant: the interval timer is left running.
StopSpawnWatchdog_KeepsTimer ==
    /\ recordSpawnFailureFn' = "null"
    /\ recordSpawnSuccessFn' = "null"
    /\ isEnabled' = FALSE
    /\ watchdogCall' = "stopSpawnWatchdog"
    /\ UNCHANGED <<now, trackerVars, ebadfRecoveryCallback, watchdogTimer, spawnFailures,
                   lastRestartAt, callVars, recoveryCalls, recorded, restartCalls,
                   monitorVars,
                   cycledSinceRestart, launchVars>>

\* stopSpawnWatchdog()
StopSpawnWatchdog ==
    /\ watchdogTimer' = NoTimer
    /\ recordSpawnFailureFn' = "null"
    /\ recordSpawnSuccessFn' = "null"
    /\ isEnabled' = FALSE
    /\ watchdogCall' = "stopSpawnWatchdog"
    /\ UNCHANGED <<now, trackerVars, ebadfRecoveryCallback, spawnFailures, lastRestartAt,
                   callVars, recoveryCalls, recorded, restartCalls, monitorVars,
                   cycledSinceRestart, launchVars>>

\* The interval timer fires: checkSpawnHealth().  The timer is due every
\* WATCHDOG_CHECK_INTERVAL_MS and may fire late.
CheckSpawnHealth ==
    /\ watchdogTimer.set
    /\ now >= watchdogTimer.due
    /\ LET r == checkSpawnHealth(spawnFailures, lastRestartAt, now)
       IN  /\ spawnFailures' = r.spawnFailures
           /\ lastRestartAt' = r.lastRestartAt
           /\ restartCalls' =
                 IF r.restart
                 THEN scheduleGatewaySigusr1Restart(restartCalls, now,
                          "spawn-watchdog-health-check", RESTART_DELAY_MS)
                 ELSE restartCalls
           /\ cycledSinceRestart' = (cycledSinceRestart /\ ~r.restart)
    /\ watchdogTimer' = IntervalTimer(now + WATCHDOG_CHECK_INTERVAL_MS)
    /\ watchdogCall' = "checkSpawnHealth"
    /\ UNCHANGED <<now, trackerVars, ebadfRecoveryCallback, hookVars, isEnabled, callVars,
                   recoveryCalls, recorded, monitorVars, launchVars>>

\* recordSpawnFailure() called directly, as the module exports it.
RecordSpawnFailure ==
    /\ LET failures == recordSpawnFailure(spawnFailures, isEnabled, now)
       IN  /\ Len(failures) <= MaxFailures
           /\ spawnFailures' = failures
    /\ watchdogCall' = "recordSpawnFailure"
    /\ UNCHANGED <<now, trackerVars, ebadfRecoveryCallback, hookVars, watchdogTimer,
                   lastRestartAt, isEnabled, callVars, recoveryCalls, recorded, restartCalls,
                   monitorVars,
                   cycledSinceRestart, launchVars>>

\* recordSpawnSuccess() called directly.
RecordSpawnSuccess ==
    /\ spawnFailures' = recordSpawnSuccess(spawnFailures, isEnabled, now)
    /\ watchdogCall' = "recordSpawnSuccess"
    /\ UNCHANGED <<now, trackerVars, ebadfRecoveryCallback, hookVars, watchdogTimer,
                   lastRestartAt, isEnabled, callVars, recoveryCalls, recorded, restartCalls,
                   monitorVars,
                   cycledSinceRestart, launchVars>>

Init ==
    /\ now = StartTime
    /\ recordSpawnFailureFn = "null"
    /\ recordSpawnSuccessFn = "null"
    /\ ebadfErrorCount = 0
    /\ ebadfLastErrorAt = 0
    /\ ebadfLastRecoveryAt = 0
    /\ ebadfRecoveryCallback = "null"
    /\ watchdogTimer = NoTimer
    /\ spawnFailures = <<>>
    /\ lastRestartAt = 0
    /\ isEnabled = FALSE
    /\ pc = "idle"
    /\ params = [fallbacks |-> <<>>, retryCodes |-> DEFAULT_RETRY_CODES,
                 onFallback |-> "undefined"]
    /\ index = 0
    /\ hadEbadfError = FALSE
    /\ lastError = NoError
    /\ outcome = NoOutcome
    /\ launches = <<>>
    /\ fallbackCalls = <<>>
    /\ recoveryCalls = <<>>
    /\ recorded = <<>>
    /\ restartCalls = <<>>
    /\ watchdogCall = "none"
    /\ cycledSinceRestart = FALSE
    /\ monitorPc = "stopped"
    /\ LAST_RESTART = 0
    /\ TOTAL_RESTARTS = 0
    /\ EBADF_COUNT = 0
    /\ statsFile = NoStatsFile
    /\ gatewayPid = "4242"
    /\ signals = <<>>
    /\ childPid = "none"
    /\ settled = FALSE
    /\ listeners = {}
    /\ nextTickQueued = FALSE
    /\ launchOutcome = NotLaunched
    /\ settleCalls = 0
    /\ events = <<>>

Next ==
    \/ \E p \in Params : SpawnWithFallback(p)
    \/ AttemptResolves
    \/ \E code \in ErrorCodes : AttemptRejects(code)
    \/ \E cb \in CallbackChoices : SetEbadfRecoveryCallback(cb)
    \/ AdvanceClock

\* The spawn layer as its callers drive it, the watchdog not started.
Spec == Init /\ [][Next]_vars

\* Time passes while the watchdog is in use.
WatchdogClock ==
    /\ now + Tick <= MaxWatchdogNow
    /\ now' = now + Tick
    /\ UNCHANGED <<trackerVars, ebadfRecoveryCallback, hookVars, watchdogVars, callVars,
                   logVars, monitorVars, launchVars>>

\* The calls the gateway makes while the watchdog is in use: their failures
\* do not reach the EBADF tracker.
WatchdogParams ==
    {p \in Params : /\ p.retryCodes = {"EAGAIN"}
                    /\ p.onFallback = "undefined"
                    /\ Len(p.fallbacks) <= 1}

NextWatchdog ==
    \/ StartSpawnWatchdog
    \/ StopSpawnWatchdog
    \/ CheckSpawnHealth
    \/ RecordSpawnFailure
    \/ RecordSpawnSuccess
    \/ \E p \in WatchdogParams : SpawnWithFallback(p)
    \/ AttemptResolves
    \/ \E code \in {"EAGAIN", "ENOENT"} : AttemptRejects(code)
    \/ WatchdogClock

\* The watchdog through its lifecycle, with the spawn layer reporting to it.
SpecWatchdog == Init /\ [][NextWatchdog]_vars


(***************************************************************************)
(* The gateway with both escalation paths armed: the watchdog started and  *)
(* a recovery callback registered, spawnWithFallback called with the       *)
(* default retry codes.                                                    *)
(***************************************************************************)
\* Time passes.
SystemClock ==
    /\ now + Tick <= StartTime + MaxSystemTicks * Tick
    /\ now' = now + Tick
    /\ UNCHANGED <<trackerVars, ebadfRecoveryCallback, hookVars, watchdogVars, callVars,
                   logVars, monitorVars, launchVars>>

SystemParams ==
    {p \in Params : /\ p.retryCodes = DEFAULT_RETRY_CODES
                    /\ p.onFallback = "undefined"}

NextSystem ==
    \/ StartSpawnWatchdog
    \/ CheckSpawnHealth
    \/ SetEbadfRecoveryCallback("returns")
    \/ \E p \in SystemParams : SpawnWithFallback(p)
    \/ AttemptResolves
    \/ \E code \in {"EBADF", "ENOENT"} : AttemptRejects(code)
    \/ SystemClock

\* The tracker and the watchdog fed by the same launches.
SpecSystem == Init /\ [][NextSystem]_vars

(***************************************************************************)
(* The log watchdog script of buildLogWatchdogScript: a bash process that  *)
(* tails the gateway's log.  Its while loop is one process for as long as  *)
(* the monitor runs, so its shell variables live from start to stop.       *)
(***************************************************************************)
\* $(date +%s) at time t
EpochSeconds(t) == t \div 1000

\* The shell variables of the monitor as one value.
Monitor == [LAST_RESTART |-> LAST_RESTART, TOTAL_RESTARTS |-> TOTAL_RESTARTS,
            EBADF_COUNT |-> EBADF_COUNT, sent |-> FALSE]

\* write_stats at time t
write_stats(m, t) == StatsRecord(m.LAST_RESTART, m.TOTAL_RESTARTS, EpochSeconds(t))

\* The load of $STATS_FILE at start: only totalRestarts is read, 0 when the
\* file is missing or grep finds no such key.
LoadedTotalRestarts(file) == IF file.content = "record" THEN file.totalRestarts ELSE 0

\* restart_gateway at time t, get_gateway_pid printing pid
restart_gateway(m, t, pid) ==
    IF EpochSeconds(t) - m.LAST_RESTART < COOLDOWN THEN m
    ELSE IF pid # ""
         THEN [LAST_RESTART |-> EpochSeconds(t), TOTAL_RESTARTS |-> m.TOTAL_RESTARTS + 1,
               EBADF_COUNT |-> 0, sent |-> TRUE]
         ELSE m

\* One trip of the while loop: a line is read at time t.
ReadLoop(m, matches, t, pid) ==
    IF ~matches THEN m
    ELSE LET counted == [m EXCEPT !.EBADF_COUNT = @ + 1]
         IN  IF counted.EBADF_COUNT >= EBADF_THRESHOLD THEN restart_gateway(counted, t, pid)
             ELSE counted

\* The script from its first line to the tail: the variables are set to 0,
\* totalRestarts is loaded, the stats are written.
MonitorStarts ==
    /\ monitorPc = "stopped"
    /\ monitorPc' = "tailing"
    /\ LAST_RESTART' = 0
    /\ TOTAL_RESTARTS' = LoadedTotalRestarts(statsFile)
    /\ EBADF_COUNT' = 0
    /\ statsFile' = write_stats([LAST_RESTART |-> 0,
                                 TOTAL_RESTARTS |-> LoadedTotalRestarts(statsFile)], now)
    /\ UNCHANGED <<now, trackerVars, ebadfRecoveryCallback, hookVars, watchdogVars, callVars,
                   logVars, gatewayPid, signals, launchVars>>

\* The monitor process ends (it is killed, or the machine restarts).
MonitorStops ==
    /\ monitorPc = "tailing"
    /\ monitorPc' = "stopped"
    /\ UNCHANGED <<now, trackerVars, ebadfRecoveryCallback, hookVars, watchdogVars, callVars,
                   logVars, LAST_RESTART, TOTAL_RESTARTS, EBADF_COUNT, statsFile, gatewayPid,
                   signals, launchVars>>

\* The monitor reads one line of the log, matching the EBADF pattern or not:
\* what this does to the monitor.
ReadLine(matches) ==
    /\ monitorPc = "tailing"
    /\ LET m == ReadLoop(Monitor, matches, now, gatewayPid)
       IN  /\ m.EBADF_COUNT <= MaxCount
           /\ m.sent => Len(signals) < MaxSignals
           /\ LAST_RESTART' = m.LAST_RESTART
           /\ TOTAL_RESTARTS' = m.TOTAL_RESTARTS
           /\ EBADF_COUNT' = m.EBADF_COUNT
           /\ signals' = IF m.sent THEN Append(signals, now) ELSE signals
           /\ statsFile' = IF m.sent THEN write_stats(m, now) ELSE statsFile
    /\ UNCHANGED <<monitorPc, gatewayPid>>

MonitorReadsLine(matches) ==
    /\ ReadLine(matches)
    /\ UNCHANGED <<now, trackerVars, ebadfRecoveryCallback, hookVars, watchdogVars, callVars,
                   logVars, launchVars>>

\* The gateway goes away or comes back: what launchctl print shows.
GatewayPidChanges(pid) ==
    /\ gatewayPid' = pid
    /\ UNCHANGED <<now, trackerVars, ebadfRecoveryCallback, hookVars, watchdogVars, callVars,
                   logVars, monitorPc, LAST_RESTART, TOTAL_RESTARTS, EBADF_COUNT, statsFile,
                   signals, launchVars>>

\* The stats file is removed, or overwritten with something else.
StatsFileDamaged(file) ==
    /\ statsFile' = file
    /\ UNCHANGED <<now, trackerVars, ebadfRecoveryCallback, hookVars, watchdogVars, callVars,
                   logVars, monitorPc, LAST_RESTART, TOTAL_RESTARTS, EBADF_COUNT, gatewayPid,
                   signals, launchVars>>

NextLogMonitor ==
    \/ MonitorStarts
    \/ MonitorStops
    \/ \E matches \in BOOLEAN : MonitorReadsLine(matches)
    \/ \E pid \in {"", "4242"} : GatewayPidChanges(pid)
    \/ \E file \in {NoStatsFile, CorruptStatsFile} : StatsFileDamaged(file)
    \/ AdvanceClock

\* The log monitor over its restarts.
SpecLogMonitor == Init /\ [][NextLogMonitor]_vars

\* An EBADF failure of a spawn in the gateway, its recovery callback
\* registered: recordEbadfError() runs, and the line the gateway logs for it
\* reaches the monitor.
EbadfLogged ==
    /\ ebadfRecoveryCallback # "null"
    /\ ReadLine(TRUE)
    /\ LET tr == recordEbadfError(Tracker, now, ebadfRecoveryCallback)
       IN  /\ tr.errorCount <= MaxCount
           /\ ebadfErrorCount' = tr.errorCount
           /\ ebadfLastErrorAt' = tr.lastErrorAt
           /\ ebadfLastRecoveryAt' = tr.lastRecoveryAt
           /\ recoveryCalls' = IF tr.invoked THEN Append(recoveryCalls, now) ELSE recoveryCalls
           /\ recorded' = IF tr.invoked THEN <<>>
                          ELSE LastOf(Append(recorded, now), EBADF_RECOVERY_THRESHOLD)
    /\ UNCHANGED <<now, ebadfRecoveryCallback, hookVars, watchdogVars, callVars, restartCalls,
                   watchdogCall, cycledSinceRestart, launchVars>>

NextLogVsTracker ==
    \/ MonitorStarts
    \/ SetEbadfRecoveryCallback("returns")
    \/ EbadfLogged
    \/ AdvanceClock

\* The monitor and the in-process tracker fed the same EBADF events, the
\* gateway running throughout and the monitor started once.
SpecLogVsTracker == Init /\ [][NextLogVsTracker]_vars

(***************************************************************************)
(* spawnAndWaitForSpawn: one launch.  The child's events and the next-tick *)
(* callback are separate turns of the event loop and come in any order.    *)
(***************************************************************************)
Launch == [settled |-> settled, listeners |-> listeners, outcome |-> launchOutcome,
           settleCalls |-> settleCalls]

\* cleanup(): both listeners are removed.
cleanup(ls) == ls \ {"error", "spawn"}

\* resolve(child) and reject(err): only the first call settles the promise.
resolve(l) ==
    [l EXCEPT !.outcome = IF l.outcome = LaunchPending THEN LaunchResolved ELSE l.outcome,
              !.settleCalls = l.settleCalls + 1]
reject(l, err) ==
    [l EXCEPT !.outcome = IF l.outcome = LaunchPending THEN LaunchRejected(err) ELSE l.outcome,
              !.settleCalls = l.settleCalls + 1]

\* Variant: the settled flag is not looked at.
finishResolve_Unguarded(l) ==
    resolve([l EXCEPT !.settled = TRUE, !.listeners = cleanup(l.listeners)])

finishResolve(l) ==
    IF l.settled THEN l
    ELSE resolve([l EXCEPT !.settled = TRUE, !.listeners = cleanup(l.listeners)])

onError(l, err) ==
    IF l.settled THEN l
    ELSE reject([l EXCEPT !.settled = TRUE, !.listeners = cleanup(l.listeners)], err)

onSpawn(l) == finishResolve(l)

\* The launch variables take the values of l.
LaunchBecomes(l) ==
    /\ settled' = l.settled
    /\ listeners' = l.listeners
    /\ launchOutcome' = l.outcome
    /\ settleCalls' = l.settleCalls

\* The events the child has emitted.
Emitted == SelectSeq(events, LAMBDA e : e.event \in {"spawn", "error"})

\* spawnImpl() returns a child, with a pid or without: the promise is made,
\* the listeners attached with once() and the pid check queued.
SpawnAndWaitForSpawn(pid) ==
    /\ launchOutcome = NotLaunched
    /\ childPid' = pid
    /\ settled' = FALSE
    /\ listeners' = {"error", "spawn"}
    /\ nextTickQueued' = TRUE
    /\ launchOutcome' = LaunchPending
    /\ UNCHANGED <<settleCalls, events>>
    /\ UNCHANGED <<now, trackerVars, ebadfRecoveryCallback, hookVars, watchdogVars, callVars,
                   logVars, monitorVars>>

\* spawnImpl() throws: the async function rejects with what was thrown.
SpawnImplThrows(code) ==
    /\ launchOutcome = NotLaunched
    /\ launchOutcome' = LaunchRejected(LaunchError(code, 0))
    /\ events' = Append(events, [event |-> "throw", code |-> code])
    /\ UNCHANGED <<childPid, settled, listeners, nextTickQueued, settleCalls>>
    /\ UNCHANGED <<now, trackerVars, ebadfRecoveryCallback, hookVars, watchdogVars, callVars,
                   logVars, monitorVars>>

\* The child emits 'spawn', once: a once() listener is removed, then called.
ChildEmitsSpawn ==
    /\ childPid # "none"
    /\ Len(Emitted) < MaxEmits
    /\ \A i \in DOMAIN events : events[i].event # "spawn"
    /\ events' = Append(events, [event |-> "spawn", code |-> ""])
    /\ IF "spawn" \in listeners
       THEN LaunchBecomes(onSpawn([Launch EXCEPT !.listeners = listeners \ {"spawn"}]))
       ELSE UNCHANGED <<settled, listeners, launchOutcome, settleCalls>>
    /\ UNCHANGED <<childPid, nextTickQueued>>
    /\ UNCHANGED <<now, trackerVars, ebadfRecoveryCallback, hookVars, watchdogVars, callVars,
                   logVars, monitorVars>>

\* The child emits 'error'.
ChildEmitsError(code) ==
    /\ childPid # "none"
    /\ Len(Emitted) < MaxEmits
    /\ events' = Append(events, [event |-> "error", code |-> code])
    /\ IF "error" \in listeners
       THEN LaunchBecomes(onError([Launch EXCEPT !.listeners = listeners \ {"error"}],
                                  LaunchError(code, 0)))
       ELSE UNCHANGED <<settled, listeners, launchOutcome, settleCalls>>
    /\ UNCHANGED <<childPid, nextTickQueued>>
    /\ UNCHANGED <<now, trackerVars, ebadfRecoveryCallback, hookVars, watchdogVars, callVars,
                   logVars, monitorVars>>

\* The process.nextTick callback runs.
NextTick ==
    /\ nextTickQueued
    /\ nextTickQueued' = FALSE
    /\ events' = Append(events, [event |-> "tick", code |-> ""])
    /\ IF childPid = "number"
       THEN LaunchBecomes(finishResolve(Launch))
       ELSE UNCHANGED <<settled, listeners, launchOutcome, settleCalls>>
    /\ UNCHANGED childPid
    /\ UNCHANGED <<now, trackerVars, ebadfRecoveryCallback, hookVars, watchdogVars, callVars,
                   logVars, monitorVars>>

NextLaunch ==
    \/ \E pid \in {"number", "undefined"} : SpawnAndWaitForSpawn(pid)
    \/ \E code \in ErrorCodes : SpawnImplThrows(code)
    \/ ChildEmitsSpawn
    \/ \E code \in ErrorCodes : ChildEmitsError(code)
    \/ NextTick

\* One launch under every order of its events.
SpecLaunch == Init /\ [][NextLaunch]_vars

(***************************************************************************)
(* Steps and histories the properties speak of.                            *)
(***************************************************************************)
\* The step in which the attempt in flight fails with an error of this code.
FailsWith(code) == pc = "awaiting" /\ lastError' = LaunchError(code, index)
\* The step in which the attempt in flight succeeds.
Succeeds == pc = "awaiting" /\ outcome'.kind = "resolved"
\* The step invokes the recovery callback, once.
Invoked == recoveryCalls' = Append(recoveryCalls, now)
NotInvoked == recoveryCalls' = recoveryCalls

\* The number of entries at the end of a log of times in which each entry is
\* within the sliding window of the one before it.
RECURSIVE TrailingRun(_)
TrailingRun(log) ==
    IF Len(log) <= 1 THEN Len(log)
    ELSE IF log[Len(log)] - log[Len(log) - 1] > EBADF_RECOVERY_WINDOW_MS THEN 1
         ELSE 1 + TrailingRun(SubSeq(log, 1, Len(log) - 1))

\* No invocation of the callback lies within the cooldown before now.
CooldownElapsed ==
    recoveryCalls = <<>> \/
    now - recoveryCalls[Len(recoveryCalls)] > EBADF_RECOVERY_COOLDOWN_MS

(***************************************************************************)
(* Properties.                                                             *)
(***************************************************************************)

\* C1: when attempt index (0-based) is the first of a call to succeed, the
\* result has usedFallback = (index > 0), and fallbackLabel is the label of
\* the fallback of that attempt, fallbacks[index - 1] of the source, and no
\* label for the base attempt.
C1_ResultNamesTheAttempt ==
    outcome.kind = "resolved" =>
        /\ Len(launches) = index + 1
        /\ outcome.usedFallback = (index > 0)
        /\ outcome.fallbackLabel =
              IF index > 0 THEN params.fallbacks[index].label ELSE NoLabel

C1_Witness ==
    /\ outcome.kind = "resolved"
    /\ index = 2
    /\ outcome.usedFallback
    /\ outcome.fallbackLabel = "no-stdio"

\* C2: after an attempt fails with a code that is not in the retry set, the
\* call is over: no further attempt was launched, although fallbacks may
\* remain, and the caller has that error.
C2_NonRetryableAborts ==
    (lastError.origin = "launch" /\ lastError.code \notin params.retryCodes) =>
        /\ pc = "idle"
        /\ Len(launches) = lastError.attempt + 1
        /\ outcome = Rejected(lastError)

C2_Witness ==
    /\ params.retryCodes = DEFAULT_RETRY_CODES
    /\ Len(params.fallbacks) = 1
    /\ lastError = LaunchError("ENOENT", 0)
    /\ Len(launches) = 1
    /\ outcome = Rejected(LaunchError("ENOENT", 0))

\* C3: when the last attempt of a call fails with EBADF (no fallback remains,
\* or none was given), the step that rejects the call with that error has
\* also run recordEbadfError(): the last error time is now, and the count
\* went up by one, restarted at 1, or recovery fired.
C3_LastEbadfRecordedThenThrown ==
    [][ (FailsWith("EBADF") /\ index = Len(params.fallbacks)) =>
           /\ pc' = "idle"
           /\ outcome' = Rejected(LaunchError("EBADF", index))
           /\ ebadfLastErrorAt' = now
           /\ \/ Invoked /\ ebadfErrorCount' = 0
              \/ NotInvoked /\ ebadfErrorCount' \in {ebadfErrorCount + 1, 1} ]_vars

C3_Witness ==
    /\ pc = "idle"
    /\ Len(params.fallbacks) = 1
    /\ outcome = Rejected(LaunchError("EBADF", 1))
    /\ ebadfLastErrorAt = now
    /\ ebadfErrorCount = 2

\* C4: an EBADF error that is not yet the third of a run of recorded errors,
\* each within the window of the one before, counted from a zero count,
\* never invokes the callback; the third invokes it exactly once when a
\* callback is registered and the cooldown has elapsed.
C4_ThresholdBoundary ==
    [][ FailsWith("EBADF") =>
           LET run == TrailingRun(Append(recorded, now))
           IN  /\ run < EBADF_RECOVERY_THRESHOLD => NotInvoked
               /\ ( /\ run = EBADF_RECOVERY_THRESHOLD
                    /\ ebadfRecoveryCallback # "null"
                    /\ CooldownElapsed ) => Invoked ]_vars

C4_Witness ==
    /\ recoveryCalls = <<now>>
    /\ now = StartTime + 2 * Tick
    /\ ebadfLastErrorAt = now
    /\ ebadfErrorCount = 0
    /\ recorded = <<>>

\* C5: a call that succeeds without an EBADF failure of its own zeroes the
\* count, and the callback is invoked only by the third, or a later, error
\* recorded since the last such success: errors before it never add to
\* errors after it.
C5_CleanSuccessResets ==
    [][ /\ (Succeeds /\ ~hadEbadfError) => ebadfErrorCount' = 0
        /\ ~NotInvoked => Len(recorded) + 1 >= EBADF_RECOVERY_THRESHOLD ]_vars

C5_Witness ==
    /\ pc = "idle"
    /\ outcome.kind = "resolved"
    /\ ~hadEbadfError
    /\ ebadfLastErrorAt = now
    /\ ebadfErrorCount = 0
    /\ ebadfRecoveryCallback = "returns"
    /\ recoveryCalls = <<>>

\* C6: the callback is invoked only when no invocation lies within the
\* cooldown before it, and a run of errors that has reached the threshold
\* with a callback registered goes without an invocation only for that
\* reason: the cooldown runs from the last invocation, not from the last
\* error.
C6_OncePerCooldown ==
    [][ /\ ~NotInvoked => CooldownElapsed
        /\ ( /\ FailsWith("EBADF")
             /\ TrailingRun(Append(recorded, now)) >= EBADF_RECOVERY_THRESHOLD
             /\ ebadfRecoveryCallback # "null"
             /\ NotInvoked ) => ~CooldownElapsed ]_vars

C6_Witness ==
    /\ Len(recoveryCalls) = 2
    /\ recoveryCalls[2] = now
    /\ recoveryCalls[2] - recoveryCalls[1] = 3 * Tick

\* C7: an EBADF error recorded more than the sliding window after the error
\* recorded before it leaves the count at exactly 1, whatever it was, and
\* does not invoke the callback.
C7_WindowExpiryRestartsCount ==
    [][ ( /\ FailsWith("EBADF")
          /\ \/ now - ebadfLastErrorAt > EBADF_RECOVERY_WINDOW_MS
             \/ /\ recorded # <<>>
                /\ now - recorded[Len(recorded)] > EBADF_RECOVERY_WINDOW_MS ) =>
           /\ ebadfErrorCount' = 1
           /\ NotInvoked ]_vars

C7_Witness ==
    /\ Len(recorded) = 3
    /\ recorded[2] - recorded[1] <= EBADF_RECOVERY_WINDOW_MS
    /\ recorded[3] - recorded[2] > EBADF_RECOVERY_WINDOW_MS
    /\ recorded[3] = now
    /\ ebadfLastErrorAt = now
    /\ ebadfErrorCount = 1

\* C8: the success of a call that saw EBADF leaves the tracker as the last
\* recordEbadfError() of the call left it: a positive count, or zero with
\* the recovery fired at the time of that error.
C8_SuccessAfterEbadfKeepsCount ==
    /\ [](hadEbadfError => (ebadfErrorCount >= 1 \/ ebadfLastRecoveryAt = ebadfLastErrorAt))
    /\ [][ (Succeeds /\ hadEbadfError) => UNCHANGED trackerVars ]_vars

C8_Witness ==
    /\ pc = "idle"
    /\ outcome.kind = "resolved"
    /\ hadEbadfError
    /\ index = 1
    /\ ebadfErrorCount = 2
    /\ Len(recorded) = 2

\* C9: a throwing onFallback observer is swallowed: after a failure with a
\* code of the retry set while a fallback remains, the next attempt is
\* launched, and the caller never receives the observer's exception.
C9_ObserverErrorsSwallowed ==
    /\ outcome.error.origin # "onFallback"
    /\ ( /\ lastError.origin = "launch"
         /\ lastError.code \in params.retryCodes
         /\ lastError.attempt < Len(params.fallbacks) ) =>
          Len(launches) >= lastError.attempt + 2

\* C10: when the recovery callback throws, nothing of it reaches the caller,
\* who has the spawn error or the next attempt as with a callback that
\* returns, and the recovery has fired: lastRecoveryAt is now and the count
\* is 0.
C10_RecoveryErrorsSwallowed ==
    /\ [](outcome.error.origin # "recovery")
    /\ [][ (~NotInvoked /\ ebadfRecoveryCallback = "throws") =>
              /\ Invoked
              /\ ebadfLastRecoveryAt' = now
              /\ ebadfErrorCount' = 0
              /\ (pc' = "idle" /\ params.onFallback # "throws") =>
                     outcome' = Rejected(LaunchError("EBADF", index))
              /\ pc' = "awaiting" => Len(launches') = Len(launches) + 1 ]_vars

C10_Witness ==
    /\ ebadfRecoveryCallback = "throws"
    /\ recoveryCalls = <<now>>
    /\ ebadfLastRecoveryAt = now
    /\ ebadfErrorCount = 0
    /\ pc = "idle"
    /\ outcome = Rejected(LaunchError("EBADF", 0))

(***************************************************************************)
(* Properties of the health watchdog, under SpecWatchdog.                  *)
(***************************************************************************)
\* What getSpawnWatchdogStats() reports in this state.
Stats == getSpawnWatchdogStats(spawnFailures, isEnabled, lastRestartAt, now)

\* The step ends with the watchdog disabled and a record call the last thing
\* it was asked, and no time passes in it.
RecordedWhileDisabled ==
    /\ ~isEnabled
    /\ now' = now
    /\ watchdogCall' \in {"recordSpawnFailure", "recordSpawnSuccess"}

\* C11 as stated: while the watchdog is disabled, never started or stopped,
\* the record calls leave the failure list, lastRestartAt and the enabled
\* flag unchanged, and the reported recentFailures is 0.
C11_DisabledRecordingIsNoOp ==
    [][ RecordedWhileDisabled =>
           /\ UNCHANGED <<spawnFailures, lastRestartAt, isEnabled>>
           /\ Stats'.recentFailures = 0 ]_vars

\* C11 as amended: while the watchdog is disabled the record calls leave the
\* failure list, lastRestartAt, the enabled flag and the whole report
\* unchanged; recentFailures is 0 when the list is empty, as it is before
\* the first start, while timestamps recorded before a stop stay reported.
C11_DisabledRecordingChangesNothing ==
    [][ RecordedWhileDisabled =>
           /\ UNCHANGED <<spawnFailures, lastRestartAt, isEnabled>>
           /\ Stats' = Stats
           /\ spawnFailures = <<>> => Stats'.recentFailures = 0 ]_vars

C11_Witness ==
    /\ ~isEnabled
    /\ watchdogCall = "recordSpawnFailure"
    /\ Len(spawnFailures) = 2
    /\ Stats.recentFailures = 2
    /\ spawnFailures[2] < now

\* The failure timestamps of the list that lie within the health window.
RecentFailures ==
    Cardinality({i \in DOMAIN spawnFailures : now - spawnFailures[i] < HEALTH_WINDOW_MS})
\* The list without the timestamps that have left the window.
PrunedFailures == SelectSeq(spawnFailures, LAMBDA ts : now - ts < HEALTH_WINDOW_MS)
\* The step in which the interval timer fires and checkSpawnHealth() runs.
HealthCheckRuns ==
    /\ watchdogCall' = "checkSpawnHealth"
    /\ watchdogTimer.set /\ watchdogTimer'.set /\ watchdogTimer' # watchdogTimer
\* The step schedules a restart.
RestartScheduled == restartCalls' # restartCalls
\* The cooldown since the last restart the watchdog triggered has not elapsed.
InRestartCooldown == now - lastRestartAt < RESTART_COOLDOWN_MS

\* C12: a restart is scheduled only by the periodic health check, and only
\* with at least 5 failure timestamps within the trailing 120 s; a check
\* that finds fewer does nothing but prune, and a step in which
\* recordSpawnFailure() ran schedules none, whatever the count.
C12_RestartOnlyFromCheckAtThreshold ==
    [][ /\ RestartScheduled =>
             /\ HealthCheckRuns
             /\ now >= watchdogTimer.due
             /\ RecentFailures >= HEALTH_THRESHOLD_FAILURES
        /\ (HealthCheckRuns /\ RecentFailures < HEALTH_THRESHOLD_FAILURES) =>
             /\ ~RestartScheduled
             /\ lastRestartAt' = lastRestartAt
             /\ spawnFailures' = PrunedFailures
        /\ watchdogCall' = "recordSpawnFailure" => ~RestartScheduled ]_vars

C12_Witness ==
    /\ watchdogCall = "recordSpawnFailure"
    /\ Len(spawnFailures) = HEALTH_THRESHOLD_FAILURES
    /\ RecentFailures = HEALTH_THRESHOLD_FAILURES
    /\ Len(restartCalls) = 1
    /\ restartCalls[1].at < spawnFailures[1]

\* C13: a check that finds the threshold met within 300 s of the last
\* restart schedules nothing and keeps lastRestartAt and the pruned list; a
\* check that schedules a restart clears the list and sets lastRestartAt to
\* its time; so any two restarts are at least 300 s apart.
C13_RestartCooldown ==
    /\ [](\A i, j \in DOMAIN restartCalls :
             i < j => restartCalls[j].at - restartCalls[i].at >= RESTART_COOLDOWN_MS)
    /\ [][ /\ ( /\ HealthCheckRuns
                 /\ RecentFailures >= HEALTH_THRESHOLD_FAILURES
                 /\ InRestartCooldown ) =>
                /\ ~RestartScheduled
                /\ lastRestartAt' = lastRestartAt
                /\ spawnFailures' = PrunedFailures
           /\ RestartScheduled =>
                /\ restartCalls' = Append(restartCalls,
                                          [at |-> now, reason |-> "spawn-watchdog-health-check",
                                           delayMs |-> RESTART_DELAY_MS])
                /\ spawnFailures' = <<>>
                /\ lastRestartAt' = now ]_vars

C13_Witness ==
    /\ watchdogCall = "checkSpawnHealth"
    /\ watchdogTimer = IntervalTimer(now + WATCHDOG_CHECK_INTERVAL_MS)
    /\ RecentFailures = HEALTH_THRESHOLD_FAILURES
    /\ Len(restartCalls) = 1
    /\ lastRestartAt = restartCalls[1].at
    /\ now - lastRestartAt = RESTART_COOLDOWN_MS - Tick

\* C18: with no timer running (before the first start, and from a stop to
\* the next start) recording is disabled and the spawn layer holds no
\* watchdog callback; stopSpawnWatchdog() leaves that state; a health check
\* runs and a restart is scheduled only with the timer running; and from a
\* stop to the next start no spawn failure is recorded and no restart is
\* scheduled.
C18_StoppedWatchdogIsInert ==
    /\ [](~watchdogTimer.set =>
             /\ ~isEnabled
             /\ recordSpawnFailureFn = "null"
             /\ recordSpawnSuccessFn = "null")
    /\ [](watchdogCall = "stopSpawnWatchdog" => watchdogTimer = NoTimer)
    /\ [][ /\ (RestartScheduled \/ watchdogCall' = "checkSpawnHealth") =>
                (watchdogTimer.set /\ isEnabled)
           /\ (~watchdogTimer.set /\ ~watchdogTimer'.set) =>
                UNCHANGED <<restartCalls, spawnFailures, lastRestartAt>> ]_vars

C18_Witness ==
    /\ watchdogCall = "stopSpawnWatchdog"
    /\ watchdogTimer = NoTimer
    /\ RecentFailures = HEALTH_THRESHOLD_FAILURES
    /\ now > spawnFailures[HEALTH_THRESHOLD_FAILURES]
    /\ restartCalls = <<>>
    /\ pc = "idle"
    /\ outcome = Rejected(LaunchError("EAGAIN", 1))

\* C19: startSpawnWatchdog() called while the timer runs changes nothing:
\* the failure timestamps recorded so far, the timer and when it is due,
\* lastRestartAt, the enabled flag and the registered callbacks are kept.
C19_StartIsIdempotent ==
    [][ (watchdogTimer.set /\ now' = now /\ watchdogCall' = "startSpawnWatchdog") =>
           UNCHANGED <<watchdogVars, hookVars, restartCalls>> ]_vars

C19_Witness ==
    /\ watchdogCall = "startSpawnWatchdog"
    /\ watchdogTimer.set
    /\ watchdogTimer.due <= now
    /\ Len(spawnFailures) = 3
    /\ isEnabled

(***************************************************************************)
(* Further properties of the recovery tracker, under Spec.                 *)
(***************************************************************************)
\* The EBADF errors recorded up to and with the one of this step.
RecordedWithThis == Append(recorded, now)
\* The count recordEbadfError() compares with the threshold in this step is
\* at least k: the count it leaves, or the threshold when it fires.
ComparedCountAtLeast(k) ==
    IF NotInvoked THEN ebadfErrorCount' >= k ELSE EBADF_RECOVERY_THRESHOLD >= k
\* The last k recorded errors all lie within the window before now.
LastWithinWindow(k) ==
    /\ Len(RecordedWithThis) >= k
    /\ \A j \in 1..Len(RecordedWithThis) :
          j > Len(RecordedWithThis) - k => now - RecordedWithThis[j] <= EBADF_RECOVERY_WINDOW_MS
\* The last k recorded errors each came within the window of the one before.
LastChained(k) == Len(RecordedWithThis) >= k /\ TrailingRun(RecordedWithThis) >= k

\* C14 as stated: at every threshold comparison the count reflects only
\* errors that occurred within the 60 s before the comparison: a compared
\* count of k <= 3 means the last k recorded errors are at most 60 s old.
C14_CountWithinSlidingWindow ==
    [][ FailsWith("EBADF") =>
           \A k \in 1..EBADF_RECOVERY_THRESHOLD :
              ComparedCountAtLeast(k) => LastWithinWindow(k) ]_vars

\* C14 as amended: at every threshold comparison the count reflects only an
\* unbroken run of errors, each at most 60 s after the one before it; an
\* error followed by a gap of more than 60 s is never counted.
C14_CountWithinUnbrokenRun ==
    [][ FailsWith("EBADF") =>
           \A k \in 1..EBADF_RECOVERY_THRESHOLD :
              ComparedCountAtLeast(k) => LastChained(k) ]_vars

C14_Witness ==
    /\ Len(recorded) = 3
    /\ recorded[3] = now
    /\ recorded[2] - recorded[1] = EBADF_RECOVERY_WINDOW_MS
    /\ recorded[3] - recorded[2] = EBADF_RECOVERY_WINDOW_MS
    /\ ebadfErrorCount = 3
    /\ ebadfLastErrorAt = now

\* C15: replacing the callback, with a function or with null, leaves
\* errorCount, lastErrorAt and lastRecoveryAt unchanged; while the callback
\* is null an EBADF error invokes nothing, leaves lastRecoveryAt alone,
\* sets lastErrorAt, and leaves the count one higher, or at 1 after a gap
\* longer than the window, never at 0.
C15_NullCallbackKeepsCounting ==
    [][ /\ ebadfRecoveryCallback' # ebadfRecoveryCallback => UNCHANGED trackerVars
        /\ (FailsWith("EBADF") /\ ebadfRecoveryCallback = "null") =>
              /\ NotInvoked
              /\ ebadfLastRecoveryAt' = ebadfLastRecoveryAt
              /\ ebadfLastErrorAt' = now
              /\ ebadfErrorCount' =
                    IF now - ebadfLastErrorAt > EBADF_RECOVERY_WINDOW_MS THEN 1
                    ELSE ebadfErrorCount + 1 ]_vars

C15_Witness ==
    /\ ebadfRecoveryCallback = "null"
    /\ ebadfErrorCount = EBADF_RECOVERY_THRESHOLD + 1
    /\ ebadfLastErrorAt = now
    /\ Len(recoveryCalls) = 1
    /\ now - recoveryCalls[1] > EBADF_RECOVERY_COOLDOWN_MS

(***************************************************************************)
(* Attempt ordering, under Spec.                                           *)
(***************************************************************************)
\* C20: the launches of a call are the attempts in list order, at most
\* 1 + |fallbacks| of them; attempt i+1 is launched only in the step in
\* which attempt i fails with a code of the retry set, and then onFallback,
\* if given, has been called once more, with that error and fallbacks[i];
\* nothing is launched once the call has settled; and a rejected call
\* carries the error of the last attempt launched.
C20_AttemptsInOrder ==
    /\ [](/\ Len(launches) <= 1 + Len(params.fallbacks)
          /\ \A k \in DOMAIN launches : launches[k] = Attempts(params.fallbacks)[k].options
          /\ params.onFallback # "undefined" => Len(fallbackCalls) = Len(launches) - 1
          /\ outcome.kind = "rejected" =>
                /\ outcome.error.origin = "launch"
                /\ outcome.error.attempt = Len(launches) - 1
                /\ outcome.error = lastError)
    /\ [][ /\ (pc = "awaiting" /\ launches' # launches) =>
                /\ lastError' = LaunchError(lastError'.code, index)
                /\ lastError'.code \in params.retryCodes
                /\ Len(launches') = index + 2
                /\ params.onFallback # "undefined" =>
                      fallbackCalls' =
                         Append(fallbackCalls,
                                [err |-> lastError',
                                 fallback |-> params.fallbacks[index + 1].label])
           /\ (pc = "idle" /\ pc' = "idle") => launches' = launches ]_vars

(***************************************************************************)
(* The log monitor.                                                        *)
(***************************************************************************)
\* C16, under SpecLogVsTracker: the monitor sends its restart signal at
\* exactly the EBADF events at which the in-process tracker invokes its
\* recovery callback.
C16_MonitorFollowsTracker ==
    [][ (signals' # signals) <=> (recoveryCalls' # recoveryCalls) ]_vars

\* C17, under SpecLogMonitor: a monitor that starts on an intact stats
\* record holds and writes back the lastRestart and totalRestarts of the
\* record, and sends no signal within the cooldown of the persisted
\* lastRestart; a missing or corrupt record counts as no prior stats.
C17_CountersSurviveMonitorRestart ==
    [][ /\ (monitorPc = "stopped" /\ monitorPc' = "tailing") =>
              IF statsFile.content = "record"
              THEN /\ LAST_RESTART' = statsFile.lastRestart
                   /\ TOTAL_RESTARTS' = statsFile.totalRestarts
                   /\ statsFile'.lastRestart = statsFile.lastRestart
                   /\ statsFile'.totalRestarts = statsFile.totalRestarts
              ELSE /\ LAST_RESTART' = 0
                   /\ TOTAL_RESTARTS' = 0
                   /\ statsFile' = StatsRecord(0, 0, EpochSeconds(now))
        /\ (signals' # signals /\ statsFile.content = "record") =>
              EpochSeconds(now) - statsFile.lastRestart >= COOLDOWN ]_vars

(***************************************************************************)
(* The EBADF detector and the retry codes, under Spec.                      *)
(***************************************************************************)
\* The step is one recordEbadfError(): the error time is set, and the count
\* goes up by one, restarts at 1, or the recovery fires.
RecordedOnce ==
    /\ ebadfLastErrorAt' = now
    /\ \/ Invoked /\ ebadfErrorCount' = 0
       \/ NotInvoked /\ ebadfErrorCount' \in {ebadfErrorCount + 1, 1}

\* C21: a failure with code EBADF is recorded by the tracker also when the
\* caller's retryCodes leave EBADF out, and is then not retried; a failure
\* with another code of retryCodes is retried while a fallback remains and
\* leaves the tracker alone, so that a success of such a call, no EBADF
\* seen, zeroes the count.
C21_DetectorIgnoresRetryCodes ==
    [][ /\ (FailsWith("EBADF") /\ "EBADF" \notin params.retryCodes) =>
              /\ RecordedOnce
              /\ hadEbadfError'
              /\ pc' = "idle"
              /\ launches' = launches
              /\ outcome' = Rejected(LaunchError("EBADF", index))
        /\ \A code \in params.retryCodes \ {"EBADF"} :
              FailsWith(code) =>
                 /\ UNCHANGED trackerVars
                 /\ NotInvoked
                 /\ hadEbadfError' = hadEbadfError
                 /\ (index < Len(params.fallbacks) /\ params.onFallback # "throws") =>
                       (pc' = "awaiting" /\ Len(launches') = Len(launches) + 1)
        /\ (Succeeds /\ index > 0 /\ ~hadEbadfError) => ebadfErrorCount' = 0 ]_vars

C21_Witness ==
    /\ params.retryCodes = {"EAGAIN"}
    /\ Len(params.fallbacks) = 2
    /\ pc = "idle"
    /\ outcome = Rejected(LaunchError("EBADF", 1))
    /\ Len(launches) = 2
    /\ ebadfLastErrorAt = now
    /\ ebadfErrorCount = 2

\* C25: while the cooldown holds the recovery back, an EBADF error within
\* the window of the one before raises the count by one, past the
\* threshold too; the first such error after the cooldown, the count at
\* the threshold or above, invokes the callback at once; so with a callback
\* registered a count at or above the threshold is left only within the
\* cooldown of the last recovery.
C25_CountGrowsThroughCooldown ==
    [][ FailsWith("EBADF") =>
           LET inWindow == now - ebadfLastErrorAt <= EBADF_RECOVERY_WINDOW_MS
               inCooldown == now - ebadfLastRecoveryAt <= EBADF_RECOVERY_COOLDOWN_MS
           IN  /\ (inWindow /\ inCooldown) =>
                     (NotInvoked /\ ebadfErrorCount' = ebadfErrorCount + 1)
               /\ ( /\ inWindow /\ ~inCooldown
                    /\ ebadfErrorCount >= EBADF_RECOVERY_THRESHOLD
                    /\ ebadfRecoveryCallback # "null" ) => Invoked
               /\ ( /\ ebadfRecoveryCallback # "null"
                    /\ ebadfErrorCount' >= EBADF_RECOVERY_THRESHOLD ) =>
                     now - ebadfLastRecoveryAt' <= EBADF_RECOVERY_COOLDOWN_MS ]_vars

C25_Witness ==
    /\ ebadfRecoveryCallback = "returns"
    /\ Len(recoveryCalls) = 1
    /\ ebadfLastRecoveryAt = recoveryCalls[1]
    /\ now - ebadfLastRecoveryAt = EBADF_RECOVERY_COOLDOWN_MS
    /\ ebadfLastErrorAt = now
    /\ ebadfErrorCount = EBADF_RECOVERY_THRESHOLD + 1

(***************************************************************************)
(* The restart cooldown over a stop and start, under SpecWatchdog.         *)
(***************************************************************************)
\* The time of the last restart the watchdog scheduled, the epoch if none.
LastScheduledRestart ==
    IF restartCalls = <<>> THEN 0 ELSE restartCalls[Len(restartCalls)].at

\* C26: a start that sets the watchdog up clears the failure list, and
\* neither it nor a stop touches lastRestartAt, which stays the time of the
\* last restart scheduled over any stops and starts; so a health check
\* less than 300 s after that restart schedules none, the threshold met or
\* not.
C26_CooldownSurvivesStopStart ==
    /\ [](lastRestartAt = LastScheduledRestart)
    /\ [][ /\ (~watchdogTimer.set /\ watchdogTimer'.set) => spawnFailures' = <<>>
           /\ watchdogTimer'.set # watchdogTimer.set =>
                 (lastRestartAt' = lastRestartAt /\ ~RestartScheduled)
           /\ (HealthCheckRuns /\ now - LastScheduledRestart < RESTART_COOLDOWN_MS) =>
                 ~RestartScheduled ]_vars

C26_Witness ==
    /\ watchdogCall = "checkSpawnHealth"
    /\ cycledSinceRestart
    /\ watchdogTimer = IntervalTimer(now + WATCHDOG_CHECK_INTERVAL_MS)
    /\ Len(restartCalls) = 1
    /\ lastRestartAt = restartCalls[1].at
    /\ now - lastRestartAt < RESTART_COOLDOWN_MS
    /\ RecentFailures = HEALTH_THRESHOLD_FAILURES
    /\ \A i \in DOMAIN spawnFailures : spawnFailures[i] = now

(***************************************************************************)
(* The two escalation paths side by side, under SpecSystem.                *)
(***************************************************************************)
\* C22: the tracker's callback and the watchdog's restart are decided apart.
\* A call that succeeds with no EBADF failure zeroes the consecutive count
\* and leaves the watchdog's list as it is; a restart is scheduled only by a
\* health check that finds 5 failures in the window, and it neither touches
\* the tracker nor invokes the callback; the callback is invoked only by an
\* EBADF failure, and it neither schedules a restart nor moves
\* lastRestartAt, the failure being listed like any other.
C22_EscalationPathsIndependent ==
    [][ /\ (Succeeds /\ ~hadEbadfError) =>
              (ebadfErrorCount' = 0 /\ spawnFailures' = spawnFailures)
        /\ RestartScheduled =>
              /\ HealthCheckRuns
              /\ RecentFailures >= HEALTH_THRESHOLD_FAILURES
              /\ UNCHANGED <<trackerVars, ebadfRecoveryCallback>>
              /\ NotInvoked
        /\ ~NotInvoked =>
              /\ Invoked
              /\ FailsWith("EBADF")
              /\ ~RestartScheduled
              /\ lastRestartAt' = lastRestartAt
              /\ spawnFailures' =
                    NotifyFailure(recordSpawnFailureFn, spawnFailures, isEnabled, now) ]_vars

\* The watchdog has scheduled a restart after EBADF failures that clean
\* successes kept apart, the registered callback never invoked.
C22_Witness ==
    /\ watchdogCall = "checkSpawnHealth"
    /\ Len(restartCalls) = 1
    /\ restartCalls[1].at = now
    /\ lastRestartAt = now
    /\ spawnFailures = <<>>
    /\ ebadfRecoveryCallback = "returns"
    /\ recoveryCalls = <<>>
    /\ ebadfLastErrorAt > 0
    /\ ebadfLastRecoveryAt = 0
    /\ ebadfErrorCount = 0
    /\ pc = "idle"
    /\ outcome = Resolved(FALSE, NoLabel)

\* The other way round: the callback has been invoked after 3 consecutive
\* EBADF failures, and the health check that followed found 3 failures in
\* the window and scheduled nothing.
C22_CallbackAlone ==
    /\ watchdogCall = "checkSpawnHealth"
    /\ restartCalls = <<>>
    /\ lastRestartAt = 0
    /\ Len(spawnFailures) = EBADF_RECOVERY_THRESHOLD
    /\ Len(recoveryCalls) = 1
    /\ ebadfLastRecoveryAt = recoveryCalls[1]
    /\ ebadfErrorCount = 0

\* C24: every failed attempt is reported on its own.  Each one appends one
\* timestamp to the started watchdog's list, each EBADF one runs
\* recordEbadfError() once and any other leaves the tracker alone; so while
\* the third attempt of a call is in flight the EBADF failures of the first
\* two are on record unless the callback has been invoked, and if the third
\* fails with EBADF too, the three within the window of each other, the
\* callback registered and out of its cooldown, that failure invokes the
\* callback before the call rejects.
C24_NotifiedPerAttempt ==
    /\ []((pc = "awaiting" /\ index = 2 /\ recoveryCalls = <<>>) =>
            (Len(recorded) >= 2 /\ ebadfErrorCount >= TrailingRun(recorded)))
    /\ [][ /\ \A code \in {"EBADF", "ENOENT"} : FailsWith(code) =>
                 /\ recordSpawnFailureFn # "null" =>
                       spawnFailures' = FilterAfter(Append(spawnFailures, now),
                                                    now - HEALTH_WINDOW_MS)
                 /\ IF code = "EBADF" THEN RecordedOnce ELSE UNCHANGED trackerVars
           /\ ( /\ FailsWith("EBADF")
                /\ Len(params.fallbacks) = 2
                /\ index = 2
                /\ ebadfRecoveryCallback # "null"
                /\ CooldownElapsed
                /\ TrailingRun(Append(recorded, now)) >= EBADF_RECOVERY_THRESHOLD ) =>
                 (Invoked /\ pc' = "idle" /\ outcome' = Rejected(LaunchError("EBADF", 2))) ]_vars

C24_Witness ==
    /\ pc = "idle"
    /\ Len(params.fallbacks) = 2
    /\ Len(launches) = 3
    /\ outcome = Rejected(LaunchError("EBADF", 2))
    /\ recoveryCalls = <<now>>
    /\ ebadfLastRecoveryAt = now
    /\ ebadfErrorCount = 0
    /\ recorded = <<>>
    /\ spawnFailures = <<now, now, now>>

(***************************************************************************)
(* One launch, under SpecLaunch.                                           *)
(***************************************************************************)
\* What decides a launch: a throw of the start call, an event of the child,
\* or the pid check finding a number.
Decides(e) == e.event \in {"throw", "spawn", "error"} \/ (e.event = "tick" /\ childPid = "number")

\* The position in events of the first that decides, 0 if none does.
FirstDeciding ==
    IF \E i \in DOMAIN events : Decides(events[i])
    THEN CHOOSE i \in DOMAIN events :
            Decides(events[i]) /\ \A j \in 1..(i - 1) : ~Decides(events[j])
    ELSE 0

\* The outcome the first deciding event stands for.
DecidedOutcome ==
    IF FirstDeciding = 0
    THEN IF childPid = "none" THEN NotLaunched ELSE LaunchPending
    ELSE LET e == events[FirstDeciding]
         IN  IF e.event \in {"throw", "error"} THEN LaunchRejected(LaunchError(e.code, 0))
             ELSE LaunchResolved

\* C23: whatever the order of the child's 'spawn' and 'error' events and the
\* next-tick pid check, the promise of a launch holds what the first
\* deciding event stands for (resolved for 'spawn' or a numeric pid at the
\* check, rejected with its error for 'error' or a throw of the start call,
\* pending while nothing has decided); resolve() or reject() is called at
\* most once, exactly once when the child decided; and a decided outcome is
\* never changed or produced again by a later event.
C23_LaunchSettlesOnce ==
    /\ [](/\ launchOutcome = DecidedOutcome
          /\ settleCalls = IF settled THEN 1 ELSE 0
          /\ settled <=> (FirstDeciding > 0 /\ events[FirstDeciding].event # "throw")
          /\ settled => listeners = {})
    /\ [][ launchOutcome.kind \in {"resolved", "rejected"} =>
             (launchOutcome' = launchOutcome /\ settleCalls' = settleCalls) ]_vars

\* 'error' came first, then the pid check found a number, then 'spawn'.
C23_Witness ==
    /\ childPid = "number"
    /\ events = <<[event |-> "error", code |-> "EBADF"], [event |-> "tick", code |-> ""],
                  [event |-> "spawn", code |-> ""]>>
    /\ launchOutcome = LaunchRejected(LaunchError("EBADF", 0))
    /\ settleCalls = 1
    /\ ~nextTickQueued

=============================================================================
